---- MODULE Spec2Model ----
(***************************************************************************)
(* Model of the call-transcript pipeline: summarize.py / virgullu.py       *)
(* (summarization stage) and topic.py (classification stage).              *)
(*                                                                         *)
(* Texts are sequences of symbols.  A symbol is one character, except for  *)
(* the words "subcategories", "null" and "true", which are kept whole and  *)
(* expanded to their characters (WordChars) wherever the code looks at     *)
(* single characters.  The only whitespace symbol is " ".                  *)
(***************************************************************************)
EXTENDS Integers, Sequences, FiniteSets, TLC

\* ------------------------------------------------------------------ bounds
MaxRows == 2        \* input rows per run
MaxItems == 4       \* elements of the "subcategories" list the model returns
MaxChatter == 3     \* length of free text over braces and chatter
MaxCatRows == 3     \* rows of the category sheet

\* ------------------------------------------------------- program constants
MAX_RETRIES == 2

\* ------------------------------------------------------------ text helpers
Q == "\""
Key == <<"subcategories">>
Empty == <<>>

Min(a, b) == IF a < b THEN a ELSE b

\* str.strip(): drop leading and trailing whitespace.
RECURSIVE LStrip(_)
LStrip(t) == IF t # <<>> /\ Head(t) = " " THEN LStrip(Tail(t)) ELSE t

RECURSIVE RStrip(_)
RStrip(t) ==
  IF t # <<>> /\ t[Len(t)] = " " THEN RStrip(SubSeq(t, 1, Len(t) - 1)) ELSE t

Strip(t) == RStrip(LStrip(t))

\* str.find(c): 0-based index of the first occurrence, -1 when absent.
RECURSIVE FindFrom(_, _, _)
FindFrom(t, c, i) ==
  IF i > Len(t) THEN -1 ELSE IF t[i] = c THEN i - 1 ELSE FindFrom(t, c, i + 1)

PyFind(t, c) == FindFrom(t, c, 1)

\* Mutant of PyRFind: find() where rfind() is meant.
PyRFindFirst(t, c) == FindFrom(t, c, 1)

\* str.rfind(c): 0-based index of the last occurrence, -1 when absent.
RECURSIVE RFindFrom(_, _, _)
RFindFrom(t, c, i) ==
  IF i < 1 THEN -1 ELSE IF t[i] = c THEN i - 1 ELSE RFindFrom(t, c, i - 1)

PyRFind(t, c) == RFindFrom(t, c, Len(t))

\* t[a:b] for 0 <= a, 0 <= b.
PySlice(t, a, b) == SubSeq(t, a + 1, Min(b, Len(t)))

\* The characters of a symbol.
WordChars(c) ==
  CASE c = "subcategories" ->
         <<"s", "u", "b", "c", "a", "t", "e", "g", "o", "r", "i", "e", "s">>
    [] c = "null" -> <<"n", "u", "l", "l">>
    [] c = "true" -> <<"t", "r", "u", "e">>
    [] OTHER -> <<c>>

RECURSIVE Chars(_)
Chars(t) == IF t = <<>> THEN <<>> ELSE WordChars(Head(t)) \o Chars(Tail(t))

\* ------------------------------------------------------------- JSON values
StrV(s) == [t |-> "str", s |-> s, items |-> <<>>, members |-> <<>>]
NumV(s) == [t |-> "num", s |-> s, items |-> <<>>, members |-> <<>>]
NullV == [t |-> "null", s |-> <<>>, items |-> <<>>, members |-> <<>>]
TrueV == [t |-> "true", s |-> <<>>, items |-> <<>>, members |-> <<>>]
ArrV(xs) == [t |-> "arr", s |-> <<>>, items |-> xs, members |-> <<>>]
ObjV(ms) == [t |-> "obj", s |-> <<>>, items |-> <<>>, members |-> ms]

Fail == [ok |-> FALSE, val |-> NullV, pos |-> 0]
Ok(v, p) == [ok |-> TRUE, val |-> v, pos |-> p]

RECURSIVE SkipWs(_, _)
SkipWs(t, i) == IF i <= Len(t) /\ t[i] = " " THEN SkipWs(t, i + 1) ELSE i

\* Position of the quote closing a string literal, 0 when unterminated.
RECURSIVE CloseQuote(_, _)
CloseQuote(t, i) ==
  IF i > Len(t) THEN 0 ELSE IF t[i] = Q THEN i ELSE CloseQuote(t, i + 1)

RECURSIVE DigitsEnd(_, _)
DigitsEnd(t, i) == IF i <= Len(t) /\ t[i] = "1" THEN DigitsEnd(t, i + 1) ELSE i

RECURSIVE ParseValue(_, _)
RECURSIVE ParseItems(_, _, _)
RECURSIVE ParseMembers(_, _, _)

\* json.loads' scanner: one value starting at or after position i.
ParseValue(t, i0) ==
  LET i == SkipWs(t, i0) IN
  IF i > Len(t) THEN Fail
  ELSE CASE t[i] = Q ->
              LET j == CloseQuote(t, i + 1) IN
              IF j = 0 THEN Fail ELSE Ok(StrV(SubSeq(t, i + 1, j - 1)), j + 1)
         [] t[i] = "1" ->
              LET j == DigitsEnd(t, i) IN Ok(NumV(SubSeq(t, i, j - 1)), j)
         [] t[i] = "null" -> Ok(NullV, i + 1)
         [] t[i] = "true" -> Ok(TrueV, i + 1)
         [] t[i] = "[" ->
              LET j == SkipWs(t, i + 1) IN
              IF j <= Len(t) /\ t[j] = "]" THEN Ok(ArrV(<<>>), j + 1)
              ELSE ParseItems(t, i + 1, <<>>)
         [] t[i] = "{" ->
              LET j == SkipWs(t, i + 1) IN
              IF j <= Len(t) /\ t[j] = "}" THEN Ok(ObjV(<<>>), j + 1)
              ELSE ParseMembers(t, i + 1, <<>>)
         [] OTHER -> Fail

ParseItems(t, i, acc) ==
  LET r == ParseValue(t, i) IN
  IF ~r.ok THEN Fail
  ELSE LET j == SkipWs(t, r.pos) IN
       IF j > Len(t) THEN Fail
       ELSE IF t[j] = "," THEN ParseItems(t, j + 1, Append(acc, r.val))
       ELSE IF t[j] = "]" THEN Ok(ArrV(Append(acc, r.val)), j + 1)
       ELSE Fail

ParseMembers(t, i, acc) ==
  LET k == SkipWs(t, i) IN
  IF k > Len(t) \/ t[k] # Q THEN Fail
  ELSE LET e == CloseQuote(t, k + 1) IN
       IF e = 0 THEN Fail
       ELSE LET c == SkipWs(t, e + 1) IN
            IF c > Len(t) \/ t[c] # ":" THEN Fail
            ELSE LET r == ParseValue(t, c + 1) IN
                 IF ~r.ok THEN Fail
                 ELSE LET j == SkipWs(t, r.pos)
                          m == [k |-> SubSeq(t, k + 1, e - 1), v |-> r.val]
                      IN IF j > Len(t) THEN Fail
                         ELSE IF t[j] = "," THEN ParseMembers(t, j + 1, Append(acc, m))
                         ELSE IF t[j] = "}" THEN Ok(ObjV(Append(acc, m)), j + 1)
                         ELSE Fail

\* json.loads(text): one value, then nothing but whitespace.
json_loads(t) ==
  LET r == ParseValue(t, 1) IN
  IF r.ok /\ SkipWs(t, r.pos) > Len(t) THEN r ELSE Fail

\* ------------------------------------------------------ Python on a value
\* repr() of a parsed value and str() of a list element.
RECURSIVE PyRepr(_)
RECURSIVE JoinRepr(_)
RECURSIVE JoinMembers(_)

PyRepr(v) ==
  CASE v.t = "str" -> <<"'">> \o v.s \o <<"'">>
    [] v.t = "num" -> v.s
    [] v.t = "null" -> <<"N", "o", "n", "e">>
    [] v.t = "true" -> <<"T", "r", "u", "e">>
    [] v.t = "arr" -> <<"[">> \o JoinRepr(v.items) \o <<"]">>
    [] v.t = "obj" -> <<"{">> \o JoinMembers(v.members) \o <<"}">>

JoinRepr(xs) ==
  IF xs = <<>> THEN <<>>
  ELSE IF Len(xs) = 1 THEN PyRepr(xs[1])
  ELSE PyRepr(xs[1]) \o <<",", " ">> \o JoinRepr(Tail(xs))

JoinMembers(ms) ==
  IF ms = <<>> THEN <<>>
  ELSE LET one == <<"'">> \o ms[1].k \o <<"'", ":", " ">> \o PyRepr(ms[1].v) IN
       IF Len(ms) = 1 THEN one ELSE one \o <<",", " ">> \o JoinMembers(Tail(ms))

\* The members a dict keeps of a JSON object: one per key, in the order of the
\* key's first occurrence, with the value of its last occurrence.
LastValue(ms, key) ==
  LET i == CHOOSE n \in 1..Len(ms) :
             /\ ms[n].k = key
             /\ \A m \in (n + 1)..Len(ms) : ms[m].k # key
  IN ms[i].v

RECURSIVE DictOfFrom(_, _)
DictOfFrom(ms, i) ==
  IF i > Len(ms) THEN <<>>
  ELSE IF \E j \in 1..(i - 1) : ms[j].k = ms[i].k THEN DictOfFrom(ms, i + 1)
  ELSE <<[k |-> ms[i].k, v |-> LastValue(ms, ms[i].k)]>> \o DictOfFrom(ms, i + 1)

DictOf(ms) == DictOfFrom(ms, 1)

PyStr(v) == IF v.t = "str" THEN v.s ELSE PyRepr(v)

\* parsed.get(key, default) on a dict.
DictGet(ms, key, default) ==
  IF \E i \in 1..Len(ms) : ms[i].k = key THEN LastValue(ms, key) ELSE default

\* Whether `for s in v` works, and the elements it yields.
Iterable(v) == v.t \in {"arr", "str", "obj"}

PyIter(v) ==
  CASE v.t = "arr" -> v.items
    [] v.t = "str" -> LET cs == Chars(v.s) IN [i \in 1..Len(cs) |-> StrV(<<cs[i]>>)]
    [] v.t = "obj" -> LET d == DictOf(v.members) IN [i \in 1..Len(d) |-> StrV(d[i].k)]

\* ------------------------------------------- topic.py: classify_summary
\* What call_llm hands back: a text, or a value that is no text (a JSON null
\* in choices[0].message.content).
Text(t) == [isstr |-> TRUE, text |-> t]
NoText == [isstr |-> FALSE, text |-> <<>>]

Placeholders == <<Empty, Empty, Empty>>

\* [str(s).strip() for s in sub_list if str(s).strip()]
RECURSIVE CoerceTrimmed(_)
CoerceTrimmed(xs) ==
  IF xs = <<>> THEN <<>>
  ELSE LET s == Strip(PyStr(Head(xs))) IN
       IF s # <<>> THEN <<s>> \o CoerceTrimmed(Tail(xs)) ELSE CoerceTrimmed(Tail(xs))

\* Mutant of ExactlyThree: pads, and keeps a longer list whole.
ExactlyThreeNoTruncate(sub_list) ==
  IF Len(sub_list) < 3
    THEN sub_list \o [i \in 1..(3 - Len(sub_list)) |-> <<>>]
    ELSE sub_list

\* Exactly 3: trim or pad with empty strings.
ExactlyThree(sub_list) ==
  IF Len(sub_list) > 3 THEN SubSeq(sub_list, 1, 3)
  ELSE IF Len(sub_list) < 3
    THEN sub_list \o [i \in 1..(3 - Len(sub_list)) |-> Empty]
  ELSE sub_list

\* The span from the first "{" to the last "}", or the text when one is absent.
BraceSpan(text) ==
  LET first_brace == PyFind(text, "{")
      last_brace == PyRFind(text, "}")
  IN IF first_brace # -1 /\ last_brace # -1
       THEN PySlice(text, first_brace, last_brace + 1)
       ELSE text

\* The try block of classify_summary on the raw content call_llm returned; any
\* exception inside it gives the three placeholders.
ParseLabels(raw_content) ==
  IF ~raw_content.isstr THEN Placeholders
  ELSE LET parsed == json_loads(BraceSpan(Strip(raw_content.text))) IN
       IF ~parsed.ok \/ parsed.val.t # "obj" THEN Placeholders
       ELSE LET sub_list == DictGet(parsed.val.members, Key, ArrV(<<>>)) IN
            IF ~Iterable(sub_list) THEN Placeholders
            ELSE ExactlyThree(CoerceTrimmed(PyIter(sub_list)))

\* ------------------------------------------------------- spreadsheet cells
\* A cell read by pandas: a text, or NaN for a missing cell.
Cell(t) == [nan |-> FALSE, text |-> t]
NaN == [nan |-> TRUE, text |-> <<>>]

\* "" if pd.isna(value) else str(value)
CellText(value) == IF value.nan THEN <<>> ELSE value.text

\* Series.astype(str): a missing cell becomes the text "nan".
AsTypeStr(value) == IF value.nan THEN <<"n", "a", "n">> ELSE value.text

\* DataFrame.to_excel then read_excel: an empty text comes back as NaN.
ExcelRoundTrip(t) == IF t = <<>> THEN NaN ELSE Cell(t)

\* ---------------------------------------------- topic.py: load_categories
\* Mutant of DictSet: a key already there keeps its value.
DictSetKeepFirst(d, key, value) ==
  IF \E i \in 1..Len(d) : d[i].k = key
    THEN d
    ELSE Append(d, [k |-> key, v |-> value])

\* d[key] = value on a dict kept as its items in insertion order.
DictSet(d, key, value) ==
  IF \E i \in 1..Len(d) : d[i].k = key
    THEN [i \in 1..Len(d) |-> IF d[i].k = key THEN [k |-> key, v |-> value] ELSE d[i]]
    ELSE Append(d, [k |-> key, v |-> value])

RECURSIVE ZipInto(_, _)
ZipInto(d, cat) ==
  IF cat = <<>> THEN d
  ELSE LET main == Strip(AsTypeStr(Head(cat).main))
           sub == Strip(AsTypeStr(Head(cat).sub))
       IN ZipInto(DictSet(d, sub, main), Tail(cat))

\* load_categories(): the dict sub_to_main; subcategories is the list of its keys.
load_categories(cat) == ZipInto(<<>>, cat)

DictKeys(d) == [i \in 1..Len(d) |-> d[i].k]

\* ------------------------------------------ virgullu.py: the sixth field
\* row_text.split(",")
RECURSIVE SplitComma(_, _)
SplitComma(t, cur) ==
  IF t = <<>> THEN <<cur>>
  ELSE IF Head(t) = "," THEN <<cur>> \o SplitComma(Tail(t), <<>>)
  ELSE SplitComma(Tail(t), Append(cur, Head(t)))

\* The six stripped fields of a row, padded with empty texts.
FirstSix(value) ==
  LET raw == SplitComma(CellText(value), <<>>)
      parts == [i \in 1..Len(raw) |-> Strip(raw[i])]
      padded == IF Len(parts) < 6
                  THEN parts \o [i \in 1..(6 - Len(parts)) |-> Empty]
                  ELSE parts
  IN SubSeq(padded, 1, 6)

\* Mutant of Transcript: summarize.py does not strip the cell.
TranscriptUnstripped(prog, value) ==
  IF prog = "virgullu" THEN FirstSix(value)[6] ELSE CellText(value)

\* The transcript main() takes from a cell of the input column.
Transcript(prog, value) ==
  IF prog = "virgullu" THEN FirstSix(value)[6] ELSE Strip(CellText(value))

\* ------------------------------------------------------------ the prompts
build_messages(transcript) ==
  << [role |-> "system", content |-> <<"summarize in 3-5 sentences">>],
     [role |-> "user",
      content |-> <<"Here is the call transcript:">> \o transcript
                    \o <<"Please provide only the summary.">>] >>

RECURSIVE Bullets(_)
Bullets(subs) ==
  IF subs = <<>> THEN <<>> ELSE <<"-", " ">> \o Head(subs) \o <<"\n">> \o Bullets(Tail(subs))

build_classification_messages(summary_text, subs) ==
  << [role |-> "system", content |-> <<"choose exactly 3 DISTINCT subcategories">>],
     [role |-> "user",
      content |-> <<"Here is the call summary:">> \o summary_text
                    \o <<"AVAILABLE subcategories:">> \o Bullets(subs)
                    \o <<"Return ONLY valid JSON">>] >>

NoMessages == <<>>

\* --------------------------------------------------------- the endpoint
\* Why an attempt fails: the request raises (connection error, timeout),
\* raise_for_status() raises (non-2xx), data["choices"][0]["message"]["content"]
\* raises (unexpected shape), content.strip() raises (content is no text).
Causes == {"network", "status", "shape"}

CauseText(c) ==
  CASE c = "network" -> <<"Connection", " ", "refused">>
    [] c = "status" -> <<"500", " ", "Server", " ", "Error">>
    [] c = "shape" -> <<"'", "choices", "'">>
    [] c = "notext" -> <<"'NoneType'", " ", "object", " ", "has", " ", "no", " ", "attribute", " ", "'strip'">>

None == <<"None">>

SUMMARY_ERROR == <<"[", "SUMMARY_ERROR", "]", " ">>
LLM_ERROR == <<"[", "LLM_ERROR", "]", " ">>

\* What one POST comes to: a failure with its cause, or a reply with its content.
Failure(c) == [ok |-> FALSE, cause |-> c, content |-> NoText]
Reply(content) == [ok |-> TRUE, cause |-> "none", content |-> content]

Outcomes(contents) == {Failure(c) : c \in Causes} \cup {Reply(x) : x \in contents}

\* ------------------------------------------------------------- the inputs
SeqsUpTo(S, n) == UNION {[1..k -> S] : k \in 0..n}

Lit(t) == <<Q>> \o t \o <<Q>>

RECURSIVE JoinComma(_)
JoinComma(ts) ==
  IF ts = <<>> THEN <<>>
  ELSE IF Len(ts) = 1 THEN ts[1]
  ELSE ts[1] \o <<",", " ">> \o JoinComma(Tail(ts))

JsonList(ts) == <<"[">> \o JoinComma(ts) \o <<"]">>
JsonObject(key, value) == <<"{">> \o Lit(key) \o <<":", " ">> \o value \o <<"}">>

\* Elements the model may put in the list: labels, a padded label, a blank
\* string and a null.
ItemTexts ==
  { Lit(<<"A">>), Lit(<<"B">>), Lit(<<"C">>), Lit(<<" ", "A", " ">>), Lit(<<" ">>),
    <<"null">> }

Wraps == { <<Empty, Empty>>, <<<<" ", "x", " ">>, <<" ", "x", " ">>>> }

\* A JSON object with a list under "subcategories", with or without chatter
\* around it.
ListTexts ==
  { w[1] \o JsonObject(Key, JsonList(l)) \o w[2] :
      w \in Wraps, l \in SeqsUpTo(ItemTexts, MaxItems) }

\* Free text over braces, chatter and whitespace.
ChatterTexts == SeqsUpTo({"{", "}", "x", " "}, MaxChatter)

\* "subcategories" absent, or holding something that is no list.
OtherFieldTexts ==
  { <<"{", "}">>,
    JsonObject(<<"other">>, JsonList(<<Lit(<<"A">>)>>)),
    JsonObject(Key, Lit(<<"A", "B">>)),
    JsonObject(Key, Lit(Key)),
    JsonObject(Key, Lit(<<>>)),
    JsonObject(Key, <<"1">>),
    JsonObject(Key, <<"null">>),
    JsonObject(Key, <<"true">>),
    JsonObject(Key, JsonObject(<<"A">>, <<"1">>)),
    JsonObject(Key, <<"{", "}">>) }

\* Texts with braces that hold no single JSON object, JSON values that are no
\* object, and objects json.loads reads in a way of its own.
OddTexts ==
  { JsonList(<<Lit(<<"A">>), Lit(<<"B">>), Lit(<<"C">>)>>),
    Lit(<<"A">>), <<"1">>, <<"null">>, <<"true">>,
    JsonObject(Key, JsonList(<<Lit(<<"A">>)>>)) \o <<" ", "x", " ">>
      \o JsonObject(Key, JsonList(<<Lit(<<"B">>)>>)),
    <<"x", " ", "{", " ">> \o JsonObject(Key, JsonList(<<Lit(<<"A">>)>>)),
    JsonObject(Key, JsonList(<<Lit(<<"A">>)>>)) \o <<"}">>,
    JsonObject(Key, <<"[">> \o Lit(<<"A">>) \o <<",", "]">>),
    JsonObject(Key, <<"[">> \o Lit(<<"A">>)),
    JsonObject(Key, JsonList(<<JsonList(<<Lit(<<"A">>)>>), <<"1">>, <<"true">>>>)),
    <<"{">> \o Lit(Key) \o <<":">> \o JsonList(<<Lit(<<"A">>)>>) \o <<",">>
      \o Lit(Key) \o <<":">> \o JsonList(<<Lit(<<"B">>)>>) \o <<"}">>,
    JsonList(<<JsonObject(Key, JsonList(<<Lit(<<"A">>)>>))>>),
    JsonObject(<<"a">>, JsonObject(Key, JsonList(<<Lit(<<"A">>)>>))) }

\* What the endpoint may answer to a classification prompt.
AssistantTexts ==
  {Text(t) : t \in ListTexts \cup ChatterTexts \cup OtherFieldTexts \cup OddTexts}
    \cup {NoText}

\* The few answers the whole pipeline is run with.
PipelineTexts ==
  { Text(<<"x", " ">> \o JsonObject(Key, JsonList(<<Lit(<<"A">>), Lit(<<"B">>)>>))
           \o <<" ", "x">>),
    Text(JsonObject(Key, JsonList(<<Lit(<<"A">>), Lit(<<"C">>), Lit(<<"B">>)>>))),
    Text(<<"x">>),
    NoText }

\* What the endpoint may answer to a summary prompt.
SummaryTexts == {Text(<<"s">>), Text(<<" ", "s", " ">>), Text(<<" ">>), NoText}

\* Cells of the transcript column (summarize.py) and of the single column
\* (virgullu.py).
TranscriptCells == {NaN, Cell(<<" ">>), Cell(<<" ", "t">>)}

CommaCells ==
  { NaN,
    Cell(<<"a", ",", "b">>),
    Cell(<<"a", ",", "b", ",", "c", ",", "d", ",", "e", ",", " ", "t", " ", ",", "g">>),
    Cell(<<"a", ",", "b", ",", "c", ",", "d", ",", "e", ",", " ", ",", "t">>) }

InputCells(prog) == IF prog = "virgullu" THEN CommaCells ELSE TranscriptCells

\* Rows of the category sheet.
CatRow(m, sb) == [main |-> m, sub |-> sb]

CatRows ==
  { CatRow(m, sb) :
      m \in {Cell(<<"Billing">>), Cell(<<" ", "Support">>)},
      sb \in {Cell(<<"Refund">>), Cell(<<"Refund", " ">>), Cell(<<"Charge">>), NaN} }

PipelineCategories == <<CatRow(Cell(<<"X">>), Cell(<<"A">>)), CatRow(Cell(<<"Y">>), Cell(<<"B">>))>>

\* --------------------------------------------------------------- the state
VARIABLES
  prog,          \* which script runs the first stage: "summarize" or "virgullu"
  rows,          \* the input column
  cat_rows,      \* the category sheet
  stage,         \* "summarize", "written", "classify", "done"
  idx,           \* the row the loop of main() is at (from 1)
  pc,            \* "main", or inside the client: "post", "sleep"
  call_site,     \* the stage and row the current or last call was made for
  payload,       \* the messages of the call being made
  attempt,       \* the loop variable of the client
  last_error,    \* the client's last_error
  requests,      \* POSTs issued by the current or last call
  delays,        \* time.sleep(1) taken by the current or last call
  outcomes,      \* what each of those POSTs came to
  returned,      \* what the last call returned
  summaries,     \* summarize.py / virgullu.py: summaries
  first_six_columns_rows,  \* virgullu.py
  output_summary,   \* the summary column of output_with_summary.xlsx
  summary_series,   \* topic.py: the column read back
  sub_to_main,      \* topic.py: the dict of load_categories
  subcategories,    \* topic.py: its keys
  raw_content,      \* topic.py: classify_summary's raw_content
  sub_lists,        \* topic.py: sub1_list, sub2_list, sub3_list, row by row
  main_lists        \* topic.py: main1_list, main2_list, main3_list, row by row

vars ==
  << prog, rows, cat_rows, stage, idx, pc, call_site, payload, attempt, last_error, requests,
     delays, outcomes, returned, summaries, first_six_columns_rows, output_summary,
     summary_series, sub_to_main, subcategories, raw_content, sub_lists, main_lists >>

client == <<call_site, payload, attempt, last_error, requests, delays, outcomes, returned>>
stage1 == <<summaries, first_six_columns_rows, output_summary>>
stage2 == <<summary_series, sub_to_main, subcategories, raw_content, sub_lists, main_lists>>
inputs == <<prog, rows, cat_rows>>

\* Which row of which stage a call serves.
Site(s, i) == [stage |-> s, row |-> i]
NoCall == Site("none", 0)

NothingYet ==
  /\ idx = 1
  /\ pc = "main"
  /\ call_site = NoCall
  /\ payload = NoMessages
  /\ attempt = 0
  /\ last_error = None
  /\ requests = 0
  /\ delays = 0
  /\ outcomes = <<>>
  /\ returned = NoText
  /\ summaries = <<>>
  /\ first_six_columns_rows = <<>>
  /\ summary_series = <<>>
  /\ sub_to_main = <<>>
  /\ subcategories = <<>>
  /\ raw_content = NoText
  /\ sub_lists = <<>>
  /\ main_lists = <<>>

Init ==
  /\ prog \in {"summarize", "virgullu"}
  /\ rows \in SeqsUpTo(InputCells(prog), MaxRows)
  /\ cat_rows = PipelineCategories
  /\ stage = "summarize"
  /\ output_summary = <<>>
  /\ NothingYet

\* ------------------------------------------------------ the retry loop
\* Mutant of InRange: the loop runs one attempt too many.
InRangeOneMore(n) == n \in 1..(MAX_RETRIES + 1)

\* for attempt in range(1, MAX_RETRIES + 1)
InRange(n) == n \in 1..MAX_RETRIES

\* Mutant of SleepGuard: the delay follows every failed attempt.
SleepGuardAlways(n) == n <= MAX_RETRIES

\* if attempt < MAX_RETRIES: time.sleep(1)
SleepGuard(n) == n < MAX_RETRIES

\* What an attempt came to: whether the try block raised, and the exception.
Attempt(failed, e) == [failed |-> failed, error |-> e]

\* Entering summarize_with_llm / call_llm: the payload is built and the loop
\* starts at attempt 1.
EnterClient(messages) ==
  /\ call_site' = Site(stage, idx)
  /\ payload' = messages
  /\ attempt' = 1
  /\ last_error' = None
  /\ requests' = 0
  /\ delays' = 0
  /\ outcomes' = <<>>
  /\ returned' = NoText
  /\ pc' = "post"

\* ------------------------------ stage 1: summarize.py / virgullu.py main
\* summaries.append(summary) (and, in virgullu.py, the six fields), then the
\* loop goes to the next row.
AppendSummary(summary) ==
  /\ summaries' = Append(summaries, summary)
  /\ first_six_columns_rows' =
       IF prog = "virgullu"
         THEN Append(first_six_columns_rows, FirstSix(rows[idx]))
         ELSE first_six_columns_rows
  /\ idx' = idx + 1
  /\ pc' = "main"

\* The loop body of main() up to the call: a blank transcript gets the empty
\* summary, any other goes to summarize_with_llm.
MainRow ==
  /\ stage = "summarize"
  /\ pc = "main"
  /\ idx <= Len(rows)
  /\ LET transcript == Transcript(prog, rows[idx]) IN
       IF transcript = <<>>
         THEN /\ AppendSummary(Empty)
              /\ UNCHANGED client
         ELSE /\ EnterClient(build_messages(transcript))
              /\ UNCHANGED <<summaries, first_six_columns_rows, idx>>
  /\ UNCHANGED <<inputs, stage, output_summary, stage2>>

\* summarize_with_llm returns `summary` to main().
ReturnSummary(summary) ==
  /\ returned' = Text(summary)
  /\ AppendSummary(summary)

\* Mutant of SummarizeNext: at the end of the loop the row is given up without
\* an entry.
SummarizeNextSkipsRow(e) ==
  IF attempt + 1 \in 1..MAX_RETRIES
    THEN /\ attempt' = attempt + 1
         /\ pc' = "post"
         /\ UNCHANGED <<returned, summaries, first_six_columns_rows, idx>>
    ELSE /\ returned' = Text(SUMMARY_ERROR \o e)
         /\ idx' = idx + 1
         /\ pc' = "main"
         /\ UNCHANGED <<attempt, summaries, first_six_columns_rows>>

\* After a failed attempt (and its delay, if any): the next iteration, or the
\* end of the loop and the error marker.
SummarizeNext(e) ==
  IF InRange(attempt + 1)
    THEN /\ attempt' = attempt + 1
         /\ pc' = "post"
         /\ UNCHANGED <<returned, summaries, first_six_columns_rows, idx>>
    ELSE /\ ReturnSummary(SUMMARY_ERROR \o e)
         /\ UNCHANGED attempt

\* One pass through the try block of summarize_with_llm.
SummarizePost(contents) ==
  /\ stage = "summarize"
  /\ pc = "post"
  /\ \E o \in Outcomes(contents) :
       LET raised == ~o.ok \/ ~o.content.isstr
           e == CauseText(IF o.ok THEN "notext" ELSE o.cause)
       IN /\ requests' = requests + 1
          /\ outcomes' = Append(outcomes, Attempt(raised, IF raised THEN e ELSE None))
          /\ IF ~raised
               THEN /\ ReturnSummary(Strip(o.content.text))
                    /\ UNCHANGED <<attempt, last_error>>
               ELSE /\ last_error' = e
                    /\ IF SleepGuard(attempt)
                         THEN /\ pc' = "sleep"
                              /\ UNCHANGED <<attempt, returned, summaries,
                                             first_six_columns_rows, idx>>
                         ELSE SummarizeNext(e)
  /\ UNCHANGED <<inputs, stage, call_site, payload, delays, output_summary, stage2>>

\* time.sleep(1), then on with the loop.
SummarizeSleep ==
  /\ stage = "summarize"
  /\ pc = "sleep"
  /\ delays' = delays + 1
  /\ SummarizeNext(last_error)
  /\ UNCHANGED <<inputs, stage, call_site, payload, last_error, requests, outcomes,
                 output_summary, stage2>>

\* The end of main(): the summary column is written.  topic.py reads the file
\* summarize.py writes (output_with_summary.xlsx).
MainWrite ==
  /\ stage = "summarize"
  /\ pc = "main"
  /\ idx > Len(rows)
  /\ IF prog = "summarize"
       THEN /\ output_summary' = [i \in 1..Len(summaries) |-> ExcelRoundTrip(summaries[i])]
            /\ stage' = "written"
       ELSE /\ stage' = "done"
            /\ UNCHANGED output_summary
  /\ UNCHANGED <<inputs, idx, pc, client, summaries, first_six_columns_rows, stage2>>

\* ------------------------------------------------- stage 2: topic.py main
\* main() up to its loop: the categories are loaded and the summary column read.
TopicStart ==
  /\ stage = "written"
  /\ sub_to_main' = load_categories(cat_rows)
  /\ subcategories' = DictKeys(load_categories(cat_rows))
  /\ summary_series' = output_summary
  /\ idx' = 1
  /\ stage' = "classify"
  /\ UNCHANGED <<inputs, pc, client, stage1, raw_content, sub_lists, main_lists>>

\* sub_to_main.get(s, "") if s else ""
MainCategory(d, sb) == IF sb # <<>> THEN DictGet(d, sb, Empty) ELSE Empty

\* The loop body of main() after classify_summary returned chosen_subs.
AppendTopics(chosen_subs) ==
  LET sbs == IF Len(chosen_subs) = 3 THEN chosen_subs ELSE Placeholders IN
  /\ sub_lists' = Append(sub_lists, sbs)
  /\ main_lists' = Append(main_lists, [i \in 1..3 |-> MainCategory(sub_to_main, sbs[i])])
  /\ idx' = idx + 1
  /\ pc' = "main"

\* The loop body of main() and classify_summary up to the call: a blank summary
\* gets [] without a call, any other goes to call_llm.
ClassifyRow ==
  /\ stage = "classify"
  /\ pc = "main"
  /\ idx <= Len(summary_series)
  /\ LET summary_text == CellText(summary_series[idx]) IN
       IF summary_text = <<>> \/ Strip(summary_text) = <<>>
         THEN /\ AppendTopics(<<>>)
              /\ UNCHANGED <<client, raw_content>>
         ELSE /\ EnterClient(build_classification_messages(summary_text, subcategories))
              /\ UNCHANGED <<raw_content, sub_lists, main_lists, idx>>
  /\ UNCHANGED <<inputs, stage, stage1, summary_series, sub_to_main, subcategories>>

\* call_llm returns `content` to classify_summary, which parses it and returns
\* the labels to main().
ReturnContent(content) ==
  /\ returned' = content
  /\ raw_content' = content
  /\ AppendTopics(ParseLabels(content))

CallLlmNext(e) ==
  IF InRange(attempt + 1)
    THEN /\ attempt' = attempt + 1
         /\ pc' = "post"
         /\ UNCHANGED <<returned, raw_content, sub_lists, main_lists, idx>>
    ELSE /\ ReturnContent(Text(LLM_ERROR \o e))
         /\ UNCHANGED attempt

\* One pass through the try block of call_llm.
CallLlmPost(contents) ==
  /\ stage = "classify"
  /\ pc = "post"
  /\ \E o \in Outcomes(contents) :
       LET raised == ~o.ok
           e == CauseText(o.cause)
       IN /\ requests' = requests + 1
          /\ outcomes' = Append(outcomes, Attempt(raised, IF raised THEN e ELSE None))
          /\ IF ~raised
               THEN /\ ReturnContent(o.content)
                    /\ UNCHANGED <<attempt, last_error>>
               ELSE /\ last_error' = e
                    /\ IF SleepGuard(attempt)
                         THEN /\ pc' = "sleep"
                              /\ UNCHANGED <<attempt, returned, raw_content, sub_lists,
                                             main_lists, idx>>
                         ELSE CallLlmNext(e)
  /\ UNCHANGED <<inputs, stage, call_site, payload, delays, stage1, summary_series, sub_to_main,
                 subcategories>>

CallLlmSleep ==
  /\ stage = "classify"
  /\ pc = "sleep"
  /\ delays' = delays + 1
  /\ CallLlmNext(last_error)
  /\ UNCHANGED <<inputs, stage, call_site, payload, last_error, requests, outcomes, stage1,
                 summary_series, sub_to_main, subcategories>>

\* The end of main(): the six columns are written beside the input's.
TopicWrite ==
  /\ stage = "classify"
  /\ pc = "main"
  /\ idx > Len(summary_series)
  /\ stage' = "done"
  /\ UNCHANGED <<inputs, idx, pc, client, stage1, stage2>>

\* --------------------------------------------------------- specifications
\* The two-stage pipeline.
Next ==
  \/ MainRow
  \/ SummarizePost(SummaryTexts)
  \/ SummarizeSleep
  \/ MainWrite
  \/ TopicStart
  \/ ClassifyRow
  \/ CallLlmPost(PipelineTexts)
  \/ CallLlmSleep
  \/ TopicWrite

Spec == Init /\ [][Next]_vars

\* topic.py on a one-row summary sheet, with every answer of AssistantTexts:
\* the state is the one summarize.py leaves after summarizing one transcript
\* at the first attempt.
InitExtract ==
  /\ prog = "summarize"
  /\ rows = <<Cell(<<" ", "t">>)>>
  /\ cat_rows = PipelineCategories
  /\ stage = "written"
  /\ idx = 2
  /\ pc = "main"
  /\ call_site = Site("summarize", 1)
  /\ payload = build_messages(<<"t">>)
  /\ attempt = 1
  /\ last_error = None
  /\ requests = 1
  /\ delays = 0
  /\ outcomes = <<Attempt(FALSE, None)>>
  /\ returned = Text(<<"s">>)
  /\ summaries = <<<<"s">>>>
  /\ first_six_columns_rows = <<>>
  /\ output_summary = <<Cell(<<"s">>)>>
  /\ summary_series = <<>>
  /\ sub_to_main = <<>>
  /\ subcategories = <<>>
  /\ raw_content = NoText
  /\ sub_lists = <<>>
  /\ main_lists = <<>>

NextExtract ==
  \/ TopicStart
  \/ ClassifyRow
  \/ CallLlmPost(AssistantTexts)
  \/ CallLlmSleep
  \/ TopicWrite

SpecExtract == InitExtract /\ [][NextExtract]_vars

\* topic.py on an empty summary sheet, with every category sheet of up to
\* MaxCatRows rows: the state is the one summarize.py leaves on an empty input.
InitCatalog ==
  /\ prog = "summarize"
  /\ rows = <<>>
  /\ cat_rows \in SeqsUpTo(CatRows, MaxCatRows)
  /\ stage = "written"
  /\ output_summary = <<>>
  /\ NothingYet

NextCatalog ==
  \/ TopicStart
  \/ TopicWrite

SpecCatalog == InitCatalog /\ [][NextCatalog]_vars


\* ------------------------------------------------- vocabulary of the claims
\* Empty or whitespace-only.
Blank(t) == \A i \in 1..Len(t) : t[i] = " "

\* The text between its first and its last non-whitespace symbol.
Trimmed(t) ==
  IF Blank(t) THEN <<>>
  ELSE LET inked == {i \in 1..Len(t) : t[i] # " "}
           lo == CHOOSE i \in inked : \A j \in inked : i <= j
           hi == CHOOSE i \in inked : \A j \in inked : j <= i
       IN SubSeq(t, lo, hi)

HasPrefix(t, p) == Len(t) >= Len(p) /\ SubSeq(t, 1, Len(p)) = p

\* The transcript of a row is missing, empty or whitespace-only.
BlankTranscript(value) ==
  IF prog = "virgullu"
    THEN LET parts == SplitComma(CellText(value), <<>>) IN
         Len(parts) < 6 \/ Blank(parts[6])
    ELSE value.nan \/ Blank(value.text)

\* A call has been made and has returned.
CallDone == pc = "main" /\ call_site # NoCall

Failed(n) == {i \in 1..n : outcomes[i].failed}

\* Every attempt of the call was made and failed.
Exhausted == Len(outcomes) = MAX_RETRIES /\ Failed(MAX_RETRIES) = 1..MAX_RETRIES

ErrorMarker == IF call_site.stage = "summarize" THEN SUMMARY_ERROR ELSE LLM_ERROR

\* The entries main() has appended in the stage of the last call.
Appended == IF call_site.stage = "summarize" THEN Len(summaries) ELSE Len(sub_lists)

\* C1: the client issues one request per attempt, stops at the first attempt
\* that succeeds, never issues more than MAX_RETRIES, and when all MAX_RETRIES
\* attempts fail it returns (the row gets its entry) the error marker followed
\* by the cause of the last failed attempt.
C1_RequestsUntilFirstSuccess ==
  LET n == Len(outcomes) IN
  /\ requests = n
  /\ n <= MAX_RETRIES
  /\ \A i \in 1..(n - 1) : outcomes[i].failed
  /\ pc = "post" => n < MAX_RETRIES
  /\ pc = "sleep" => outcomes[n].failed
  /\ CallDone =>
       /\ n >= 1
       /\ Appended >= call_site.row
       /\ outcomes[n].failed =>
            /\ n = MAX_RETRIES
            /\ returned = Text(ErrorMarker \o outcomes[n].error)

C1_Witness ==
  /\ CallDone
  /\ requests = MAX_RETRIES
  /\ outcomes[1].error = CauseText("network")
  /\ outcomes[MAX_RETRIES].error = CauseText("status")
  /\ returned = Text(LLM_ERROR \o CauseText("status"))

\* C2: a delay is taken only after a failed attempt that is not the last one;
\* a call that succeeds has taken one delay per failed attempt, a call whose
\* attempts all fail has taken MAX_RETRIES - 1.
C2_DelayOnlyBetweenAttempts ==
  LET n == Len(outcomes) IN
  /\ pc = "sleep" => outcomes[n].failed /\ n < MAX_RETRIES
  /\ delays <= Cardinality(Failed(n))
  /\ CallDone =>
       delays = IF outcomes[n].failed THEN MAX_RETRIES - 1 ELSE Cardinality(Failed(n))

C2_Witness ==
  /\ CallDone
  /\ Exhausted
  /\ delays = MAX_RETRIES - 1
  /\ call_site.stage = "summarize"

\* C3: in the summarization stage no call is ever made for a row whose
\* transcript is missing, empty or whitespace-only, and the summary of such a
\* row is the empty text.
C3_BlankTranscriptSkipsClient ==
  /\ call_site.stage = "summarize" => ~BlankTranscript(rows[call_site.row])
  /\ \A i \in 1..Len(summaries) : BlankTranscript(rows[i]) => summaries[i] = Empty

C3_Witness ==
  /\ Len(summaries) = 2
  /\ ~rows[2].nan
  /\ BlankTranscript(rows[2])
  /\ summaries[2] = Empty
  /\ call_site = Site("summarize", 1)
  /\ pc = "main"

\* The JSON object between the first "{" and the last "}" of the raw content.
Opens(raw) == {i \in 1..Len(raw.text) : raw.text[i] = "{"}
Closes(raw) == {i \in 1..Len(raw.text) : raw.text[i] = "}"}

Spanned(raw) ==
  LET lo == CHOOSE i \in Opens(raw) : \A j \in Opens(raw) : i <= j
      hi == CHOOSE i \in Closes(raw) : \A j \in Closes(raw) : j <= i
  IN json_loads(SubSeq(raw.text, lo, hi))

HasObject(raw) ==
  /\ raw.isstr
  /\ Opens(raw) # {}
  /\ Closes(raw) # {}
  /\ Spanned(raw).ok
  /\ Spanned(raw).val.t = "obj"

\* Its "subcategories" field, as json.loads keeps it (the last of that name).
HasField(raw) == \E i \in 1..Len(Spanned(raw).val.members) : Spanned(raw).val.members[i].k = Key

Field(raw) ==
  LET ms == Spanned(raw).val.members
      at == {i \in 1..Len(ms) : ms[i].k = Key}
  IN ms[CHOOSE i \in at : \A j \in at : j <= i].v

HasListField(raw) == HasObject(raw) /\ HasField(raw) /\ Field(raw).t = "arr"

NotEmpty(t) == t # <<>>

\* The one row of SpecExtract has been classified from raw_content.
Classified == Len(sub_lists) = 1 /\ call_site = Site("classify", 1) /\ pc = "main"

\* C4: from an object whose "subcategories" is a list, the labels are the
\* elements as trimmed text, without those that are empty after trimming, in
\* their order and with their duplicates: the first 3 of them, padded with
\* empty texts to exactly 3.
C4_TrimDropTruncatePad ==
  Classified /\ HasListField(raw_content) =>
    LET items == Field(raw_content).items
        texts == [i \in 1..Len(items) |-> Trimmed(PyStr(items[i]))]
        kept == SelectSeq(texts, NotEmpty)
    IN sub_lists[1] = [i \in 1..3 |-> IF i <= Len(kept) THEN kept[i] ELSE Empty]

C4_Witness ==
  /\ Classified
  /\ raw_content =
       Text(JsonObject(Key, JsonList(<<Lit(<<"A">>), Lit(<<"A">>), Lit(<<"B">>), Lit(<<"C">>)>>)))
  /\ sub_lists[1] = <<<<"A">>, <<"A">>, <<"B">>>>

\* C5: from a raw content that holds no JSON object between its first "{" and
\* its last "}" (a delimiter absent, the "}" before the "{", a span that is no
\* valid JSON, a value that is no object) the row gets three empty labels and
\* three empty main categories.
C5_NoObjectGivesPlaceholders ==
  Classified /\ ~HasObject(raw_content) =>
    sub_lists[1] = Placeholders /\ main_lists[1] = Placeholders

C5_Witness ==
  /\ Classified
  /\ raw_content = Text(<<"}", " ", "{">>)
  /\ sub_lists[1] = Placeholders
  /\ Len(outcomes) = 1

\* The steps the run can take when every request of summarize_with_llm fails
\* (a request of call_llm in flight is a step to come by itself).
NextWhenAllFail ==
  \/ MainRow
  \/ SummarizePost({})
  \/ SummarizeSleep
  \/ MainWrite
  \/ TopicStart
  \/ ClassifyRow
  \/ CallLlmSleep
  \/ TopicWrite

C7_SlotsAreCatalogKeys ==
  \A i \in 1..Len(sub_lists) : \A j \in 1..3 :
    \/ sub_lists[i][j] = Empty
    \/ \E n \in 1..Len(sub_to_main) : sub_to_main[n].k = sub_lists[i][j]

\* The rows of the category sheet that carry name `sb` once trimmed.
Carrying(sb) == {i \in 1..Len(cat_rows) : Trimmed(AsTypeStr(cat_rows[i].sub)) = sb}

\* C8: the dict of load_categories has exactly one key per distinct trimmed
\* subcategory name of the sheet, and each maps to the main category of the
\* last row carrying it.
C8_LastWriteWins ==
  stage # "written" =>
    /\ {sub_to_main[n].k : n \in 1..Len(sub_to_main)}
         = {Trimmed(AsTypeStr(cat_rows[i].sub)) : i \in 1..Len(cat_rows)}
    /\ \A n, m \in 1..Len(sub_to_main) : sub_to_main[n].k = sub_to_main[m].k => n = m
    /\ subcategories = [n \in 1..Len(sub_to_main) |-> sub_to_main[n].k]
    /\ \A n \in 1..Len(sub_to_main) :
         LET last == CHOOSE i \in Carrying(sub_to_main[n].k) :
                       \A j \in Carrying(sub_to_main[n].k) : j <= i
         IN sub_to_main[n].v = Trimmed(AsTypeStr(cat_rows[last].main))

C8_Witness ==
  /\ stage = "classify"
  /\ cat_rows = << CatRow(Cell(<<"Billing">>), Cell(<<"Refund">>)),
                   CatRow(Cell(<<"Billing">>), Cell(<<"Charge">>)),
                   CatRow(Cell(<<" ", "Support">>), Cell(<<"Refund", " ">>)) >>
  /\ sub_to_main = << [k |-> <<"Refund">>, v |-> <<"Support">>],
                      [k |-> <<"Charge">>, v |-> <<"Billing">>] >>
  /\ Len(subcategories) = 2

\* C9: from an object in which "subcategories" is absent or is no list, the
\* labels are three empty texts.
C9_WrongTypeIsEmptyList ==
  Classified /\ HasObject(raw_content) /\ ~HasListField(raw_content) =>
    sub_lists[1] = Placeholders

\* C10: the classification stage makes no call for a summary that starts with
\* the marker of the summarization stage, and gives such a row three empty
\* labels.
C10_MarkerIsNoSummary ==
  /\ call_site.stage = "classify" =>
       ~HasPrefix(CellText(summary_series[call_site.row]), SUMMARY_ERROR)
  /\ \A i \in 1..Len(sub_lists) :
       HasPrefix(CellText(summary_series[i]), SUMMARY_ERROR) => sub_lists[i] = Placeholders

====
